---- MODULE Spec2Model ----
(***************************************************************************)
(* A model of src/src/ETL/ee_exporter.py: the EarthEngineExporter that     *)
(* plans per-label and per-region export tasks, skips the ones whose       *)
(* output already exists, requests one composite per timestep from the     *)
(* compositing service and submits one export per task.                    *)
(*                                                                         *)
(* Dates are proleptic Gregorian ordinals (datetime.date.toordinal), so    *)
(* that date - date is a number of days and date - timedelta is a date.    *)
(* An Optional value is a sequence of length 0 (None) or 1.                *)
(***************************************************************************)
EXTENDS Integers, Sequences, FiniteSets, TLC

None == <<>>
Some(x) == <<x>>
IsNone(o) == o = <<>>
Val(o) == o[1]

Min(a, b) == IF a <= b THEN a ELSE b
Max(a, b) == IF a >= b THEN a ELSE b

(***************************************************************************)
(* datetime.date: the calendar behind date(year, month, day), .year and    *)
(* .month.                                                                 *)
(***************************************************************************)
IsLeap(y) == (y % 4 = 0) /\ ((y % 100 # 0) \/ (y % 400 = 0))

DaysInMonth(y, m) ==
    IF m = 2 THEN (IF IsLeap(y) THEN 29 ELSE 28)
    ELSE IF m \in {4, 6, 9, 11} THEN 30 ELSE 31

DaysBeforeYear(y) ==
    (y - 1) * 365 + ((y - 1) \div 4) - ((y - 1) \div 100) + ((y - 1) \div 400)

DaysBeforeMonth(y, m) ==
    <<0, 31, 59, 90, 120, 151, 181, 212, 243, 273, 304, 334>>[m]
        + (IF m > 2 /\ IsLeap(y) THEN 1 ELSE 0)

\* date(y, m, d) raises ValueError unless this holds
ValidDate(y, m, d) ==
    /\ y \in 1..9999
    /\ m \in 1..12
    /\ d \in 1..DaysInMonth(y, m)

\* date(y, m, d), for a valid date
date(y, m, d) == DaysBeforeYear(y) + DaysBeforeMonth(y, m) + d

\* d.year and d.month of the date with ordinal n
YearOf(n) ==
    LET y == (((n - 1) * 400) \div 146097) + 1
    IN IF n <= DaysBeforeYear(y) THEN y - 1
       ELSE IF n > DaysBeforeYear(y + 1) THEN y + 1
       ELSE y
MonthOf(n) ==
    LET y == YearOf(n)
        k == n - DaysBeforeYear(y)
        m == ((k - 1) \div 31) + 1
    IN IF m < 12 /\ k > DaysBeforeMonth(y, m + 1) THEN m + 1 ELSE m

\* EarthEngineExporter.min_date
min_date == date(2017, 3, 28)

(***************************************************************************)
(* The result of a call that may raise: err = "" and the value, or the     *)
(* exception's name.                                                       *)
(***************************************************************************)
Ok(v) == [err |-> "", value |-> v]
Raise(e) == [err |-> e, value |-> 0]

(***************************************************************************)
(* EarthEngineExporter._date_overlap                                       *)
(***************************************************************************)
date_overlap_unguarded(start1, end1, start2, end2) ==
    Min(end1, end2) - Max(start1, start2)

_date_overlap(start1, end1, start2, end2) ==
    LET overlaps == start1 <= end2 /\ end1 >= start2
    IN IF ~overlaps THEN 0
       ELSE Min(end1, end2) - Max(start1, start2)

(***************************************************************************)
(* Python's max(iterable, key=...) over a non-empty list, given the list   *)
(* of keys: the position of the first element whose key is maximal.        *)
(***************************************************************************)
last_max_position(keys) ==
    CHOOSE k \in 1..Len(keys) :
        /\ \A j \in 1..Len(keys) : keys[j] <= keys[k]
        /\ \A j \in (k + 1)..Len(keys) : keys[j] < keys[k]

max_position(keys) ==
    CHOOSE k \in 1..Len(keys) :
        /\ \A j \in 1..Len(keys) : keys[j] <= keys[k]
        /\ \A j \in 1..(k - 1) : keys[j] < keys[k]

(***************************************************************************)
(* EarthEngineExporter._end_date_using_max_overlap; now is                 *)
(* datetime.now().date().  It raises ValueError when date() is given a     *)
(* day the year does not have, and when max() is given no candidate.       *)
(***************************************************************************)
_end_date_using_max_overlap(planting_date, harvest_date, end_month_day, total_days, now) ==
    LET years == [k \in 1..3 |-> YearOf(harvest_date) + (k - 2)]
        valid == \A k \in 1..3 : ValidDate(years[k], end_month_day[1], end_month_day[2])
        all_dates == [k \in 1..3 |-> date(years[k], end_month_day[1], end_month_day[2])]
        Before(d) == d < now
        potential_end_dates == SelectSeq(all_dates, Before)
        keys == [k \in 1..Len(potential_end_dates) |->
                    _date_overlap(planting_date, harvest_date,
                                  potential_end_dates[k] - total_days,
                                  potential_end_dates[k])]
    IN IF ~valid THEN Raise("ValueError")
       ELSE IF potential_end_dates = <<>> THEN Raise("ValueError")
       ELSE Ok(potential_end_dates[max_position(keys)])

(***************************************************************************)
(* EarthEngineExporter.__init__: the fields of self.  The constructor      *)
(* raises ValueError when end_date, end_month_day and season are all None. *)
(***************************************************************************)
__init__(start_date, end_date, end_month_day, season, days_per_timestep, num_timesteps, region_bbox) ==
    IF IsNone(end_date) /\ IsNone(end_month_day) /\ IsNone(season)
    THEN Raise("ValueError")
    ELSE Ok([start_date |-> start_date, end_date |-> end_date,
             end_month_day |-> end_month_day, season |-> season,
             days_per_timestep |-> days_per_timestep,
             num_timesteps |-> num_timesteps, region_bbox |-> region_bbox])

(***************************************************************************)
(* EarthEngineExporter._start_end_dates_using_season; now is date.today()  *)
(* and user_input is what get_user_input returns if it is asked.           *)
(***************************************************************************)
_start_end_dates_using_season(season, now, user_input) ==
    LET year == YearOf(now)
        after_april == MonthOf(now) > 4
        prev_year == year - 1
        prev_prev_year == year - 2
        in_start_year == IF after_april THEN year ELSE prev_year
        months_between == (year - in_start_year) * 12 + MonthOf(now) - 4
    IN IF season = "in_season"
       THEN IF months_between < 7 /\ user_input \in {"n", "N", "no", "NO"}
            THEN Raise("SystemExit")
            ELSE Ok(<<date(in_start_year, 4, 1), now>>)
       ELSE IF season = "post_season"
       THEN Ok(<<date(IF after_april THEN prev_year ELSE prev_prev_year, 4, 1),
                 date(IF after_april THEN year ELSE prev_year, 4, 1)>>)
       ELSE Raise("ValueError")

\* whether export_for_region's call of _start_end_dates_using_season reaches
\* get_user_input (lines 280-281, 129-137)
asks_user(self, now) ==
    /\ self.season = Some("in_season")
    /\ (IF MonthOf(now) > 4 THEN 0 ELSE 12) + MonthOf(now) - 4 < 7

(***************************************************************************)
(* The identifier of a task, as the f-string of the file name renders it:  *)
(* a sequence of string tokens.  str(date) is one token per date.          *)
(***************************************************************************)
Str(n) == ToString(n)

\* datetime.strptime(s, "%Y-%m-%d %H:%M:%S").date(): the time of day is dropped
strptime_date(s) == date(s[1], s[2], s[3])

Task(identifier, start_date, end_date) ==
    [identifier |-> identifier, start_date |-> start_date, end_date |-> end_date]

Planned(tasks) == [err |-> "", tasks |-> tasks]
PlanRaise(e) == [err |-> e, tasks |-> <<>>]

(***************************************************************************)
(* EarthEngineExporter._labels_to_bounding_boxes.  A row is a function     *)
(* from its column names; the row index idx is its position, from 0.  The  *)
(* bounding box of a task is built from the row's lat and lon alone and    *)
(* is handed on unread, so a task is (idx, start_date, end_date).          *)
(***************************************************************************)
\* lines 189-191, after the row's append
cap_reached(appended, num_labelled_points) ==
    /\ ~IsNone(num_labelled_points)
    /\ Len(appended) >= Val(num_labelled_points)

RECURSIVE labels_loop(_, _, _, _, _, _, _, _)
labels_loop(self, rows, num_labelled_points, now, k, start_date, end_date, output) ==
    IF k > Len(rows) THEN Planned(output)
    ELSE
    LET row == rows[k]
        idx == k - 1
        total_days == self.num_timesteps * self.days_per_timestep
        anchored == ~IsNone(self.end_month_day)
        missing == "harvest_da" \notin DOMAIN row \/ "planting_d" \notin DOMAIN row
        found == _end_date_using_max_overlap(strptime_date(row["planting_d"]),
                                             strptime_date(row["harvest_da"]),
                                             Val(self.end_month_day), total_days, now)
        row_end == IF anchored THEN Some(found.value) ELSE end_date
        row_start == IF anchored THEN Some(found.value - total_days) ELSE start_date
        appended == IF ~IsNone(row_start) /\ ~IsNone(row_end)
                    THEN Append(output, Task(<<Str(idx)>>, Val(row_start), Val(row_end)))
                    ELSE output
    IN IF anchored /\ missing
       THEN labels_loop(self, rows, num_labelled_points, now, k + 1, start_date, end_date, output)
       ELSE IF anchored /\ found.err # "" THEN PlanRaise(found.err)
       ELSE IF cap_reached(appended, num_labelled_points) THEN Planned(appended)
       ELSE labels_loop(self, rows, num_labelled_points, now, k + 1, row_start, row_end, appended)

\* lines 160-163
labels_assert(start_date) == IsNone(start_date) \/ Val(start_date) >= min_date

labels_window_one_timestep(self, labels, num_labelled_points, now) ==
    LET start_date == IF IsNone(self.start_date) /\ ~IsNone(self.end_date)
                      THEN Some(Val(self.end_date) - self.days_per_timestep)
                      ELSE self.start_date
    IN IF ~labels_assert(start_date) THEN PlanRaise("AssertionError")
       ELSE labels_loop(self, labels, num_labelled_points, now, 1, start_date, self.end_date, <<>>)

_labels_to_bounding_boxes(self, labels, num_labelled_points, now) ==
    LET total_days == self.num_timesteps * self.days_per_timestep
        start_date == IF IsNone(self.start_date) /\ ~IsNone(self.end_date)
                      THEN Some(Val(self.end_date) - total_days)
                      ELSE self.start_date
    IN IF ~labels_assert(start_date) THEN PlanRaise("AssertionError")
       ELSE labels_loop(self, labels, num_labelled_points, now, 1, start_date, self.end_date, <<>>)

(***************************************************************************)
(* EarthEngineExporter.export_for_region, up to its calls of               *)
(* _export_for_polygon: the date window, then one task per polygon of      *)
(* region.to_polygons (num_polygons of them) or one for the whole region.  *)
(***************************************************************************)
region_window_end_date_first(self, now, user_input) ==
    IF ~IsNone(self.end_date) /\ self.num_timesteps # 0
    THEN Ok(<<Val(self.end_date) - self.num_timesteps * self.days_per_timestep,
              Val(self.end_date)>>)
    ELSE IF ~IsNone(self.season)
    THEN _start_end_dates_using_season(Val(self.season), now, user_input)
    ELSE Raise("ValueError")

region_window(self, now, user_input) ==
    IF ~IsNone(self.season)
    THEN _start_end_dates_using_season(Val(self.season), now, user_input)
    ELSE IF ~IsNone(self.end_date) /\ self.num_timesteps # 0
    THEN Ok(<<Val(self.end_date) - self.num_timesteps * self.days_per_timestep,
              Val(self.end_date)>>)
    ELSE Raise("ValueError")

region_tasks(self, sentinel_dataset, metres_per_polygon, num_polygons, now, user_input) ==
    LET window == region_window(self, now, user_input)
        start_date == window.value[1]
        end_date == window.value[2]
    IN IF window.err # "" THEN PlanRaise(window.err)
       ELSE IF IsNone(self.region_bbox) THEN PlanRaise("ValueError")
       ELSE IF ~IsNone(metres_per_polygon)
       THEN Planned([k \in 1..num_polygons |->
                        Task(<<Str(k - 1), "-", sentinel_dataset>>, start_date, end_date)])
       ELSE Planned(<<Task(<<sentinel_dataset>>, start_date, end_date)>>)

(***************************************************************************)
(* _export_for_polygon: the file name and the path whose existence is the  *)
(* checkpoint.                                                             *)
(***************************************************************************)
filename_without_identifier(task) ==
    <<"_", Str(task.start_date), "_", Str(task.end_date)>>

\* line 352
filename(task) ==
    task.identifier \o <<"_", Str(task.start_date), "_", Str(task.end_date)>>

tif_path(output_folder, name) == <<output_folder>> \o name \o <<".tif">>

(***************************************************************************)
(* State.                                                                  *)
(***************************************************************************)
VARIABLES
    exporter,               \* self: the fields __init__ sets, never assigned again
    labels,                 \* the rows _load_labels returns
    today,                  \* date.today() / datetime.now().date()
    files,                  \* the paths that exist in the output folders
    exported,               \* the exports the export service was handed, in all runs
    pc,                     \* where the running call is
    call,                   \* the arguments of the running (or last) call
    tasks,                  \* the tasks the call hands to _export_for_polygon, in order
    task_no,                \* the position in tasks of the current _export_for_polygon
    cur_date,               \* _export_for_polygon's locals
    cur_end_date,
    image_collection_list,
    log,                    \* the call's requests to its collaborators, in order
    runs,                   \* the number of calls so far
    prev,                   \* the call before this one: its arguments and its tasks
    files_at_start,         \* files when the running call started
    args,                   \* a function under check alone: its arguments
    ret                     \*   and what it returned

vars == <<exporter, labels, today, files, exported, pc, call, tasks, task_no, cur_date,
          cur_end_date, image_collection_list, log, runs, prev, files_at_start, args, ret>>

run_vars == <<files, exported, pc, call, tasks, task_no, cur_date, cur_end_date,
              image_collection_list, log, runs, prev, files_at_start>>

NoCall == [op |-> "", sentinel_dataset |-> "", output_folder |-> "", checkpoint |-> FALSE,
           num_labelled_points |-> None, metres_per_polygon |-> None, num_polygons |-> 0,
           user_input |-> ""]

\* a call's arguments, the clock it read and what its planning raised
Run(c, now, err) == [call |-> c, today |-> now, err |-> err]

RunInit ==
    /\ files = {}
    /\ exported = {}
    /\ pc = "idle"
    /\ call = Run(NoCall, 0, "")
    /\ tasks = <<>>
    /\ task_no = 0
    /\ cur_date = 0
    /\ cur_end_date = 0
    /\ image_collection_list = <<>>
    /\ log = <<>>
    /\ runs = 0
    /\ prev = [run |-> Run(NoCall, 0, ""), tasks |-> <<>>]
    /\ files_at_start = {}

(***************************************************************************)
(* The inputs.                                                             *)
(***************************************************************************)
MaxOffset == 4
OverlapDates == {date(2019, 3, 1) + k : k \in 0..MaxOffset}

\* "%Y-%m-%d %H:%M:%S" strings of the planting_d and harvest_da columns
PlantingHarvest ==
    { <<<<2019, 3, 1, 0, 0, 0>>, <<2019, 7, 1, 0, 0, 0>>>>,
      <<<<2016, 11, 1, 0, 0, 0>>, <<2017, 2, 15, 12, 30, 0>>>>,
      <<<<2020, 10, 1, 0, 0, 0>>, <<2021, 2, 1, 0, 0, 0>>>>,
      <<<<2021, 10, 1, 0, 0, 0>>, <<2022, 2, 1, 0, 0, 0>>>>,
      <<<<2019, 7, 1, 0, 0, 0>>, <<2019, 5, 1, 0, 0, 0>>>> }

EndMonthDays == {<<4, 1>>, <<10, 1>>, <<2, 29>>}
Todays == {date(2021, 3, 10), date(2021, 6, 15), date(2021, 11, 20)}
DaysPerTimestep == {30, 90}
MaxTimesteps == 2
TotalDays == {n * d : n \in 1..MaxTimesteps, d \in DaysPerTimestep} \cup {360}

(***************************************************************************)
(* The date functions alone: the arguments are drawn, the function is      *)
(* applied.                                                                *)
(***************************************************************************)
DatesInit ==
    /\ RunInit
    /\ exporter = None
    /\ labels = <<>>
    /\ today \in Todays
    /\ ret = [done |-> FALSE]
    /\ \/ args \in [fn : {"_date_overlap"}, start1 : OverlapDates, end1 : OverlapDates,
                    start2 : OverlapDates, end2 : OverlapDates]
       \/ args \in [fn : {"_end_date_using_max_overlap"}, dates : PlantingHarvest,
                    end_month_day : EndMonthDays, total_days : TotalDays]

call_date_overlap ==
    /\ args.fn = "_date_overlap"
    /\ ~ret.done
    /\ ret' = [done |-> TRUE,
               value |-> _date_overlap(args.start1, args.end1, args.start2, args.end2)]
    /\ UNCHANGED <<exporter, labels, today, args, run_vars>>

call_end_date_using_max_overlap ==
    /\ args.fn = "_end_date_using_max_overlap"
    /\ ~ret.done
    /\ LET r == _end_date_using_max_overlap(strptime_date(args.dates[1]),
                                            strptime_date(args.dates[2]),
                                            args.end_month_day, args.total_days, today)
       IN ret' = [done |-> TRUE, err |-> r.err, value |-> r.value]
    /\ UNCHANGED <<exporter, labels, today, args, run_vars>>

DatesNext == call_date_overlap \/ call_end_date_using_max_overlap

SpecDates == DatesInit /\ [][DatesNext]_vars

(***************************************************************************)
(* The planners alone: an exporter, a label table and a clock are drawn,   *)
(* and _labels_to_bounding_boxes or the planning part of export_for_region *)
(* is applied.                                                             *)
(***************************************************************************)
MaxRows == 2
MaxCap == 2
MaxPolygons == 2

StartDates == {None, Some(date(2016, 12, 1)), Some(date(2020, 1, 15))}
EndDates == {None, Some(date(2017, 6, 1)), Some(date(2020, 9, 1))}
Seasons == {None, Some("in_season"), Some("post_season")}
Datasets == {"Togo", "Kenya"}

\* the exporters the constructor accepts, over the given argument sets
Exporters(starts, ends, anchors, seasons, steps, counts, boxes) ==
    {r.value : r \in {c \in {__init__(s, e, a, n, d, t, b) :
                                s \in starts, e \in ends, a \in anchors, n \in seasons,
                                d \in steps, t \in counts, b \in boxes} : c.err = ""}}

DatedRow(dates) == [lat |-> 0, lon |-> 0, planting_d |-> dates[1], harvest_da |-> dates[2]]
UndatedRow == [lat |-> 0, lon |-> 0]

\* the tables of at most n rows; the rows of a table have the same columns
LabelTables(dates, n) ==
    UNION {[1..k -> {DatedRow(d) : d \in dates}] : k \in 0..n}
        \cup {[j \in 1..k |-> UndatedRow] : k \in 1..n}

PlanDates ==
    { <<<<2019, 3, 1, 0, 0, 0>>, <<2019, 7, 1, 0, 0, 0>>>>,
      <<<<2016, 11, 1, 0, 0, 0>>, <<2017, 2, 15, 12, 30, 0>>>>,
      <<<<2021, 10, 1, 0, 0, 0>>, <<2022, 2, 1, 0, 0, 0>>>> }

PlanInit ==
    /\ RunInit
    /\ today \in Todays
    /\ ret = [done |-> FALSE]
    /\ \/ /\ args = [fn |-> "_labels_to_bounding_boxes"]
          /\ labels \in LabelTables(PlanDates, MaxRows)
          /\ exporter \in Exporters(StartDates, EndDates,
                                    {None, Some(<<4, 1>>), Some(<<2, 29>>)}, Seasons,
                                    DaysPerTimestep, 1..MaxTimesteps, {None})
       \/ /\ args = [fn |-> "export_for_region"]
          /\ labels = <<>>
          /\ exporter \in Exporters(StartDates, EndDates, {None, Some(<<4, 1>>)}, Seasons,
                                    DaysPerTimestep, 1..MaxTimesteps, {None, Some("bbox")})

plan_labels(num_labelled_points) ==
    /\ args.fn = "_labels_to_bounding_boxes"
    /\ ~ret.done
    /\ LET plan == _labels_to_bounding_boxes(exporter, labels, num_labelled_points, today)
       IN ret' = [done |-> TRUE, err |-> plan.err, tasks |-> plan.tasks,
                  num_labelled_points |-> num_labelled_points]
    /\ UNCHANGED <<exporter, labels, today, args, run_vars>>

plan_region(sentinel_dataset, metres_per_polygon, num_polygons, user_input) ==
    /\ args.fn = "export_for_region"
    /\ ~ret.done
    /\ LET plan == region_tasks(exporter, sentinel_dataset, metres_per_polygon,
                                num_polygons, today, user_input)
       IN ret' = [done |-> TRUE, err |-> plan.err, tasks |-> plan.tasks,
                  user_input |-> user_input]
    /\ UNCHANGED <<exporter, labels, today, args, run_vars>>

PlanNext ==
    \/ \E n \in {None} \cup {Some(c) : c \in 0..MaxCap} : plan_labels(n)
    \/ \E ds \in {"Togo"}, m \in {None, Some(10000)}, k \in 1..MaxPolygons,
          u \in {"Y", "n"} :
          plan_region(ds, m, IF IsNone(m) THEN 1 ELSE k, u)

SpecPlan == PlanInit /\ [][PlanNext]_vars

(***************************************************************************)
(* export_for_labels and export_for_region, and the _export_for_polygon    *)
(* they call for each task, one request to a collaborator per step.        *)
(***************************************************************************)
MaxRuns == 2
MaxRunRows == 1

RunTodays == {date(2021, 3, 10), date(2021, 6, 15)}
RunDates == { <<<<2020, 10, 1, 0, 0, 0>>, <<2021, 2, 1, 0, 0, 0>>>> }
RunExporters ==
    Exporters({None}, {None, Some(date(2020, 9, 1))},
              {None, Some(<<4, 1>>)}, {None, Some("in_season")},
              {90}, {2}, {Some("bbox")})
Folders == {"data"}

Init ==
    /\ RunInit
    /\ exporter \in RunExporters
    /\ labels \in LabelTables(RunDates, MaxRunRows)
    /\ today = date(2021, 3, 10)
    /\ args = [fn |-> ""]
    /\ ret = [done |-> FALSE]

Event(op, task, name, start_date, end_date, found) ==
    [op |-> op, task |-> task, name |-> name, start_date |-> start_date,
     end_date |-> end_date, found |-> found]

Resting == pc \in {"idle", "returned", "raised"}

\* a script calls one entry point; run again, it calls the same one, perhaps for
\* another dataset
Repeats(op, metres_per_polygon, checkpoint) ==
    \/ runs = 0
    \/ /\ call.call.op = op
       /\ call.call.metres_per_polygon = metres_per_polygon
       /\ call.call.checkpoint = checkpoint

\* the call starts: the tasks are planned, or the planning raises
Start(c, plan) ==
    /\ runs < MaxRuns
    /\ runs' = runs + 1
    /\ prev' = [run |-> call, tasks |-> tasks]
    /\ call' = Run(c, today, plan.err)
    /\ tasks' = plan.tasks
    /\ task_no' = 1
    /\ pc' = IF plan.err # "" THEN "raised"
             ELSE IF plan.tasks = <<>> THEN "returned" ELSE "polygon"
    /\ log' = <<>>
    /\ files_at_start' = files
    /\ cur_date' = 0
    /\ cur_end_date' = 0
    /\ image_collection_list' = <<>>
    /\ UNCHANGED <<exporter, labels, today, files, exported, args, ret>>

export_for_labels(sentinel_dataset, output_folder, num_labelled_points, checkpoint) ==
    /\ Resting
    /\ Repeats("export_for_labels", None, checkpoint)
    /\ Start([op |-> "export_for_labels", sentinel_dataset |-> sentinel_dataset,
           output_folder |-> output_folder, checkpoint |-> checkpoint,
           num_labelled_points |-> num_labelled_points, metres_per_polygon |-> None,
           num_polygons |-> 0, user_input |-> ""],
          _labels_to_bounding_boxes(exporter, labels, num_labelled_points, today))

export_for_region(sentinel_dataset, output_folder, checkpoint, metres_per_polygon, num_polygons, user_input) ==
    /\ Resting
    /\ Repeats("export_for_region", metres_per_polygon, checkpoint)
    /\ user_input = "" <=> ~asks_user(exporter, today)
    /\ Start([op |-> "export_for_region", sentinel_dataset |-> sentinel_dataset,
           output_folder |-> output_folder, checkpoint |-> checkpoint,
           num_labelled_points |-> None, metres_per_polygon |-> metres_per_polygon,
           num_polygons |-> num_polygons, user_input |-> user_input],
          region_tasks(exporter, sentinel_dataset, metres_per_polygon, num_polygons,
                       today, user_input))

never_skip(checkpoint, path, present) == FALSE

\* line 354
should_skip(checkpoint, path, present) == checkpoint /\ path \in present

loop_stops_at_end(end_of_step, end_date) == end_of_step < end_date

\* line 358
loop_continues(end_of_step, end_date) == end_of_step <= end_date

\* _export_for_polygon returns: the caller's loop goes to its next task
NextTask ==
    /\ task_no' = task_no + 1
    /\ pc' = IF task_no = Len(tasks) THEN "returned" ELSE "polygon"

\* lines 343-356: the locals, the file name and the checkpoint
begin_polygon ==
    /\ pc = "polygon"
    /\ LET task == tasks[task_no]
           path == tif_path(call.call.output_folder, filename(task))
           checked == IF call.call.checkpoint
                      THEN <<Event("exists", task_no, path, task.start_date,
                                   task.end_date, path \in files)>>
                      ELSE <<>>
       IN /\ log' = log \o checked
          /\ cur_date' = task.start_date
          /\ cur_end_date' = task.start_date + exporter.days_per_timestep
          /\ image_collection_list' = <<>>
          /\ IF should_skip(call.call.checkpoint, path, files)
             THEN NextTask
             ELSE pc' = "while" /\ task_no' = task_no
    /\ UNCHANGED <<exporter, labels, today, files, exported, call, tasks, runs, prev,
                   files_at_start, args, ret>>

\* lines 358-364: one composite is requested
get_single_image ==
    /\ pc = "while"
    /\ loop_continues(cur_end_date, tasks[task_no].end_date)
    /\ log' = Append(log, Event("get_single_image", task_no, <<>>, cur_date,
                                cur_end_date, FALSE))
    /\ image_collection_list' = Append(image_collection_list, <<cur_date, cur_end_date>>)
    /\ cur_date' = cur_date + exporter.days_per_timestep
    /\ cur_end_date' = cur_end_date + exporter.days_per_timestep
    /\ UNCHANGED <<exporter, labels, today, files, exported, pc, call, tasks, task_no,
                   runs, prev, files_at_start, args, ret>>

\* lines 366-377: the images are combined and the export is submitted
export ==
    /\ pc = "while"
    /\ ~loop_continues(cur_end_date, tasks[task_no].end_date)
    /\ LET task == tasks[task_no]
       IN /\ log' = Append(log, Event("export", task_no, filename(task), task.start_date,
                                      task.end_date, FALSE))
          /\ exported' = exported \cup
                {[drive_folder |-> call.call.sentinel_dataset, filename |-> filename(task),
                  output_folder |-> call.call.output_folder, task |-> task]}
    /\ NextTask
    /\ UNCHANGED <<exporter, labels, today, files, call, tasks, cur_date, cur_end_date,
                   image_collection_list, runs, prev, files_at_start, args, ret>>

\* a collaborator raises, or the run is stopped
interrupted ==
    /\ pc \in {"polygon", "while"}
    /\ pc' = "raised"
    /\ UNCHANGED <<exporter, labels, today, files, exported, call, tasks, task_no,
                   cur_date, cur_end_date, image_collection_list, log, runs, prev,
                   files_at_start, args, ret>>

\* between two calls the outputs of the exports submitted so far arrive in their
\* output folders
download ==
    /\ Resting
    /\ LET arrived == {tif_path(e.output_folder, e.filename) : e \in exported}
       IN /\ ~(arrived \subseteq files)
          /\ files' = files \cup arrived
    /\ UNCHANGED <<exporter, labels, today, exported, pc, call, tasks, task_no, cur_date,
                   cur_end_date, image_collection_list, log, runs, prev, files_at_start,
                   args, ret>>

\* between two calls the date changes
tick ==
    /\ Resting
    /\ \E d \in RunTodays : d > today /\ today' = d
    /\ UNCHANGED <<exporter, labels, run_vars, args, ret>>

Next ==
    \/ \E ds \in Datasets, f \in Folders, c \in BOOLEAN :
          export_for_labels(ds, f, None, c)
    \/ \E ds \in Datasets, f \in Folders, c \in BOOLEAN, m \in {None, Some(10000)},
          u \in {"", "Y", "n"} :
          export_for_region(ds, f, c, m, IF IsNone(m) THEN 1 ELSE MaxPolygons, u)
    \/ begin_polygon
    \/ get_single_image
    \/ export
    \/ interrupted
    \/ download
    \/ tick

Spec == Init /\ [][Next]_vars

(***************************************************************************)
(* Claims about the calls (under Spec).                                    *)
(***************************************************************************)
\* the output file of a task as the specification names it:
\* <identifier>_<start_date>_<end_date>.tif in the output folder
OutputFile(task) ==
    <<call.call.output_folder>> \o task.identifier
        \o <<"_", Str(task.start_date), "_", Str(task.end_date), ".tif">>

\* the positions in log of the requests of the given kinds for the k-th task
Requests(k, ops) == {j \in DOMAIN log : log[j].task = k /\ log[j].op \in ops}

\* C1: with checkpoint enabled, a task whose output file exists is skipped, with no
\* composite requested and no export submitted, and the existence check comes
\* before the task's first composite request.
C1_CheckpointSkips ==
    call.call.checkpoint =>
        \A k \in DOMAIN tasks :
            /\ OutputFile(tasks[k]) \in files_at_start
                  => Requests(k, {"get_single_image", "export"}) = {}
            /\ \A j \in Requests(k, {"get_single_image", "export"}) :
                  \E c \in Requests(k, {"exists"}) :
                      c < j /\ log[c].name = OutputFile(tasks[k]) /\ ~log[c].found

\* a call returned after skipping one task and exporting another
C1_Witness ==
    /\ pc = "returned"
    /\ call.call.checkpoint
    /\ \E k \in DOMAIN tasks :
          OutputFile(tasks[k]) \in files_at_start /\ Requests(k, {"exists"}) # {}
    /\ \E k \in DOMAIN tasks : Requests(k, {"export"}) # {}

\* the call is a rerun of the call before it, which planned its tasks
Rerun ==
    /\ runs >= 2
    /\ pc = "returned"
    /\ call.call = prev.run.call
    /\ call.call.checkpoint
    /\ prev.run.err = ""

RerunAsStated ==
    /\ tasks = prev.tasks
    /\ \A k \in DOMAIN tasks :
          Cardinality(Requests(k, {"export"}))
              = IF OutputFile(tasks[k]) \in files_at_start THEN 0 ELSE 1

\* C2, as claimed: a rerun with the same arguments, after the outputs of a prefix
\* of the tasks arrived, plans the same tasks in the same order, submits no export
\* for a task whose output exists and exactly one for each of the others.
C2_AnyRerun == Rerun => RerunAsStated

\* C2, amended: the same, for a rerun on the same current date as the run before.
C2_RerunSameDate == (Rerun /\ call.today = prev.run.today) => RerunAsStated

\* a rerun on the same date skipped a finished task and exported a remaining one
C2_Witness ==
    /\ Rerun
    /\ call.today = prev.run.today
    /\ \E k \in DOMAIN tasks : OutputFile(tasks[k]) \in files_at_start
    /\ \E k \in DOMAIN tasks : Requests(k, {"export"}) # {}

\* the sub-windows of a task: floor((end_date - start_date) / days_per_timestep)
\* of them, each days_per_timestep long, from start_date on
NumTimesteps(task) ==
    Max(0, (task.end_date - task.start_date) \div exporter.days_per_timestep)
SubWindow(task, j) ==
    <<task.start_date + (j - 1) * exporter.days_per_timestep,
      task.start_date + j * exporter.days_per_timestep>>

\* the requests of the k-th task, in the order they were made
RequestsInOrder(k) ==
    LET OfTask(e) == e.task = k /\ e.op \in {"get_single_image", "export"}
    IN SelectSeq(log, OfTask)

\* C7: for every task that is not skipped, the composites requested are those of
\* the sub-windows [start_date + k*d, start_date + (k+1)*d], k = 0 ..
\* floor((end_date - start_date) / d) - 1, in that order, none ends after
\* end_date, and one export is submitted, after the last composite request.
C7_SubWindows ==
    \A k \in DOMAIN tasks :
        LET reqs == RequestsInOrder(k)
            n == NumTimesteps(tasks[k])
            done == k < task_no
        IN /\ Len(reqs) <= n + 1
           /\ \A j \in DOMAIN reqs :
                 IF j <= n
                 THEN /\ reqs[j].op = "get_single_image"
                      /\ <<reqs[j].start_date, reqs[j].end_date>> = SubWindow(tasks[k], j)
                      /\ reqs[j].end_date <= tasks[k].end_date
                 ELSE reqs[j].op = "export"
           /\ (done /\ reqs # <<>>) => Len(reqs) = n + 1

\* a task was exported whose window is two timesteps or more and a remainder
C7_Witness ==
    \E k \in DOMAIN tasks :
        /\ k < task_no
        /\ Requests(k, {"export"}) # {}
        /\ NumTimesteps(tasks[k]) >= 2
        /\ (tasks[k].end_date - tasks[k].start_date) % exporter.days_per_timestep # 0

\* C9: the output file key is decided by identifier, dataset name and date window
\* together: a task is skipped only for an output that an export of the same
\* identifier, the same dataset and the same window produced.
C9_KeyNamesDataset ==
    \A j \in DOMAIN log :
        (log[j].op = "exists" /\ log[j].found) =>
            \E e \in exported :
                /\ tif_path(e.output_folder, e.filename) = log[j].name
                /\ e.task = tasks[log[j].task]
                /\ e.drive_folder = call.call.sentinel_dataset

(***************************************************************************)
(* Claims about the date functions (under SpecDates).                      *)
(***************************************************************************)
\* the overlap in days of [start1, end1] and [start2, end2] as the specification states it
StatedOverlap(start1, end1, start2, end2) ==
    Max(0, Min(end1, end2) - Max(start1, start2))

OverlapReturned == args.fn = "_date_overlap" /\ ret.done

OverlapAsStated ==
    /\ ret.value = StatedOverlap(args.start1, args.end1, args.start2, args.end2)
    /\ ret.value >= 0
    /\ (args.end1 < args.start2 \/ args.end2 < args.start1) => ret.value = 0
    /\ ret.value = _date_overlap(args.start2, args.end2, args.start1, args.end1)

\* C5, as claimed: for all four dates, _date_overlap is max(0, min(end1, end2) -
\* max(start1, start2)), never negative, 0 for disjoint intervals, and symmetric.
C5_AllDates == OverlapReturned => OverlapAsStated

\* C5, amended: the same, for intervals whose start is not after their end
\* (start1 <= end1 and start2 <= end2).
C5_DateOverlap ==
    (OverlapReturned /\ args.start1 <= args.end1 /\ args.start2 <= args.end2)
        => OverlapAsStated

C5_Witness ==
    /\ OverlapReturned
    /\ args.start1 < args.end1 /\ args.start2 < args.end2
    /\ args.start1 < args.start2 /\ args.end1 < args.end2
    /\ ret.value > 0

MaxOverlapReturned == args.fn = "_end_date_using_max_overlap" /\ ret.done

\* the year-anchored candidates that are calendar dates, and those before today
AnchorYears == {YearOf(strptime_date(args.dates[2])) + k : k \in {-1, 0, 1}}
AnchorValid(y) == ValidDate(y, args.end_month_day[1], args.end_month_day[2])
Candidates ==
    {date(y, args.end_month_day[1], args.end_month_day[2]) : y \in {z \in AnchorYears : AnchorValid(z)}}
CandidatesInRange == {d \in Candidates : d < today}

CandidateOverlap(d) ==
    StatedOverlap(d - args.total_days, d,
                  strptime_date(args.dates[1]), strptime_date(args.dates[2]))

MaxOverlapAsStated ==
    /\ ret.err = ""
    /\ ret.value \in CandidatesInRange
    /\ \A d \in CandidatesInRange :
          /\ CandidateOverlap(d) <= CandidateOverlap(ret.value)
          /\ CandidateOverlap(d) = CandidateOverlap(ret.value) => ret.value <= d

\* C4, as claimed: for all arguments, _end_date_using_max_overlap returns a
\* year-anchored candidate before the current date, none of the others has a
\* greater overlap, and of those with the same overlap it is the oldest.
C4_AllArguments == MaxOverlapReturned => MaxOverlapAsStated

\* C4, amended: the same, when the anchor is a calendar date in each of the three
\* years and at least one candidate is before the current date; otherwise the
\* function raises ValueError.
C4_MaxOverlap ==
    MaxOverlapReturned =>
        IF (\A y \in AnchorYears : AnchorValid(y)) /\ CandidatesInRange # {}
        THEN MaxOverlapAsStated
        ELSE ret.err = "ValueError"

\* the overlap decides: the candidate returned is not the oldest one in range,
\* and another case where two candidates tie
C4_Witness ==
    /\ MaxOverlapReturned
    /\ ret.err = ""
    /\ \E d \in CandidatesInRange : d < ret.value /\ CandidateOverlap(d) > 0

(***************************************************************************)
(* Claims about the planners (under SpecPlan).                             *)
(***************************************************************************)
LabelsPlanned == args.fn = "_labels_to_bounding_boxes" /\ ret.done /\ ret.err = ""
RegionPlanned == args.fn = "export_for_region" /\ ret.done /\ ret.err = ""

\* C3: in every date-window mode, from labels and from a region, no task whose
\* start_date is before min_date is planned (handed to _export_for_polygon).
C3_NoTaskBeforeMinDate ==
    (LabelsPlanned \/ RegionPlanned) =>
        \A k \in DOMAIN ret.tasks : ret.tasks[k].start_date >= min_date

\* the windows of the four modes
TotalDaysOf(e) == e.num_timesteps * e.days_per_timestep
ExplicitWindow == <<Val(exporter.start_date), Val(exporter.end_date)>>
CountWindow == <<Val(exporter.end_date) - TotalDaysOf(exporter), Val(exporter.end_date)>>
SeasonWindow(user_input) ==
    _start_end_dates_using_season(Val(exporter.season), today, user_input).value
RowOf(task) == labels[CHOOSE k \in DOMAIN labels : task.identifier = <<Str(k - 1)>>]
AnchoredWindow(task) ==
    LET end == _end_date_using_max_overlap(strptime_date(RowOf(task)["planting_d"]),
                                           strptime_date(RowOf(task)["harvest_da"]),
                                           Val(exporter.end_month_day),
                                           TotalDaysOf(exporter), today).value
    IN <<end - TotalDaysOf(exporter), end>>

HasExplicit == ~IsNone(exporter.start_date) /\ ~IsNone(exporter.end_date)
HasCount == ~IsNone(exporter.end_date)
HasSeason == ~IsNone(exporter.season)
HasAnchor == ~IsNone(exporter.end_month_day)
SeveralModes ==
    Cardinality({m \in {"count", "season", "anchor"} :
                    \/ m = "count" /\ HasCount
                    \/ m = "season" /\ HasSeason
                    \/ m = "anchor" /\ HasAnchor}) > 1
        \/ (HasExplicit /\ (HasSeason \/ HasAnchor))

WindowOf(task) == <<task.start_date, task.end_date>>

\* the window by the claimed precedence
ClaimedWindow(task, user_input) ==
    IF HasExplicit THEN ExplicitWindow
    ELSE IF HasCount THEN CountWindow
    ELSE IF HasSeason THEN SeasonWindow(user_input)
    ELSE AnchoredWindow(task)

\* C6, as claimed: with more than one mode configured, every planned task has the
\* window of the first configured mode in the order explicit (start_date,
\* end_date), (end_date, num_timesteps), season, end_month_day, from a region and
\* from labels alike.
C6_ClaimedPrecedence ==
    /\ (LabelsPlanned /\ SeveralModes) =>
          \A k \in DOMAIN ret.tasks : WindowOf(ret.tasks[k]) = ClaimedWindow(ret.tasks[k], "Y")
    /\ (RegionPlanned /\ SeveralModes) =>
          \A k \in DOMAIN ret.tasks :
              WindowOf(ret.tasks[k]) = ClaimedWindow(ret.tasks[k], ret.user_input)

\* C6, amended: with more than one mode configured, export_for_region gives every
\* task the season's window when a season is configured and otherwise (end_date -
\* num_timesteps * days_per_timestep, end_date), never the explicit start_date; the
\* label mapper gives every task its row's overlap-maximized window when
\* end_month_day is configured, otherwise (start_date, end_date) when both are set,
\* otherwise (end_date - num_timesteps * days_per_timestep, end_date), and plans no
\* task from a season.
C6_Precedence ==
    /\ (LabelsPlanned /\ SeveralModes) =>
          /\ \A k \in DOMAIN ret.tasks :
                WindowOf(ret.tasks[k]) =
                    IF HasAnchor THEN AnchoredWindow(ret.tasks[k])
                    ELSE IF HasExplicit THEN ExplicitWindow
                    ELSE CountWindow
          /\ (~HasAnchor /\ ~HasCount) => ret.tasks = <<>>
    /\ (RegionPlanned /\ SeveralModes) =>
          \A k \in DOMAIN ret.tasks :
              WindowOf(ret.tasks[k]) =
                  IF HasSeason THEN SeasonWindow(ret.user_input) ELSE CountWindow

\* a region planned with a season and an end_date: the season's window is used
C6_Witness ==
    /\ RegionPlanned /\ HasSeason /\ HasExplicit
    /\ ret.tasks # <<>>
    /\ WindowOf(ret.tasks[1]) # ExplicitWindow
    /\ WindowOf(ret.tasks[1]) # CountWindow

Uncapped == _labels_to_bounding_boxes(exporter, labels, None, today)

\* C8: with a cap n >= 0 the mapper returns at most n tasks, the first n of those
\* it returns for the same table without a cap.
C8_Cap ==
    (LabelsPlanned /\ ~IsNone(ret.num_labelled_points)) =>
        /\ Len(ret.tasks) <= Val(ret.num_labelled_points)
        /\ Uncapped.err = "" =>
              ret.tasks = SubSeq(Uncapped.tasks, 1,
                                 Min(Val(ret.num_labelled_points), Len(Uncapped.tasks)))

RowsSkipped == HasAnchor /\ \E k \in DOMAIN labels : "planting_d" \notin DOMAIN labels[k]

\* C10: without a cap, for every exporter the constructor accepts, the mapper
\* returns one task per row that is not skipped for a missing planting or harvest
\* date: the identifiers are the row indices of those rows, once each, in order.
C10_OneTaskPerRow ==
    (LabelsPlanned /\ IsNone(ret.num_labelled_points)) =>
        [k \in DOMAIN ret.tasks |-> ret.tasks[k].identifier]
            = IF RowsSkipped THEN <<>> ELSE [k \in DOMAIN labels |-> <<Str(k - 1)>>]

\* the length in days of a task's window, and the window as the specification's
\* DateWindow has it: start_date < end_date and a whole number of timesteps
WindowDays(task) == task.end_date - task.start_date
WholeTimesteps(task) ==
    /\ task.start_date < task.end_date
    /\ WindowDays(task) % exporter.days_per_timestep = 0

\* the window is num_timesteps timesteps long
CountedWindow(task) ==
    /\ WindowDays(task) = TotalDaysOf(exporter)
    /\ WindowDays(task) % exporter.days_per_timestep = 0
    /\ exporter.num_timesteps >= 1 => task.start_date < task.end_date

\* C11, as claimed: every window handed to _export_for_polygon, from whichever
\* mode and from labels or a region, has start_date < end_date and a length in
\* days that is a multiple of days_per_timestep.
C11_EveryWindow ==
    (LabelsPlanned \/ RegionPlanned) =>
        \A k \in DOMAIN ret.tasks : WholeTimesteps(ret.tasks[k])

\* C11, amended: a window computed from end_date and num_timesteps (a region
\* without a season, labels without end_month_day and without start_date) or by
\* per-row anchoring is exactly num_timesteps * days_per_timestep days long, so a
\* multiple of days_per_timestep with start_date < end_date; a season's window
\* has start_date < end_date but any length; an explicit (start_date, end_date)
\* of the label mapper is handed on as configured.
C11_WindowsByMode ==
    /\ LabelsPlanned =>
          \A k \in DOMAIN ret.tasks :
              IF HasAnchor \/ IsNone(exporter.start_date)
              THEN CountedWindow(ret.tasks[k])
              ELSE WindowOf(ret.tasks[k]) = ExplicitWindow
    /\ RegionPlanned =>
          \A k \in DOMAIN ret.tasks :
              IF HasSeason
              THEN ret.tasks[k].start_date < ret.tasks[k].end_date
              ELSE CountedWindow(ret.tasks[k])

\* labels planned from end_date and two timesteps, and the window is two timesteps
C11_Witness ==
    /\ LabelsPlanned /\ ~HasAnchor /\ IsNone(exporter.start_date)
    /\ exporter.num_timesteps = 2
    /\ ret.tasks # <<>>
    /\ WholeTimesteps(ret.tasks[1])
    /\ WindowDays(ret.tasks[1]) = 2 * exporter.days_per_timestep

====
